---- MODULE Spec2Model ----
(***************************************************************************)
(* Structurely <-> GoHighLevel synchronizer.                               *)
(*                                                                         *)
(* The retrying variant of the script (src/unnamed/part_000) is modelled:  *)
(* initialize, runIntegrationTest, periodicSync, getGHLContacts,           *)
(* syncLeadToStructurely and syncLeadFromStructurely.  The two remote      *)
(* services are the environment: every remote call either succeeds or      *)
(* fails; a failed call has no effect on the remote store, except that a   *)
(* push whose answer is lost may have reached the Lead Store.              *)
(*                                                                         *)
(* JavaScript values are tagged records; strings are sequences of UTF-16   *)
(* code units so that "a > b" on strings is the comparison of the code.    *)
(* Date readings are whole hours; toISOString is the fixed-width,          *)
(* zero-padded decimal rendering of the reading (two digits), which keeps  *)
(* what the program relies on: equal width, most significant digit first.  *)
(***************************************************************************)
EXTENDS Integers, Sequences, FiniteSets, TLC

VARIABLES
    now,          \* the wall clock (new Date()), in hours
    contacts,     \* Contact Store: the contact list, in the order it is paged
    customField,  \* Contact Store: customField of every contact id
    leads,        \* Lead Store: the lead records it holds
    listDown,     \* environment: the Contact Store is down, GET /contacts always fails
    rejected,     \* environment: contacts whose lead the Lead Store always refuses
    failures,     \* environment: transient failures of remote calls so far
    ackedAt,      \* observation: the clock when the contact's last write-back was
                  \* acknowledged, -1 when it never was
    initPc,       \* position of initialize()
    timerSet,     \* setInterval(periodicSync, SYNC_INTERVAL) has been called
    task,         \* task[0]: runIntegrationTest; task[r], r >= 1: a run of periodicSync
    pin,          \* input of a function applied on its own
    pout          \* its result

vars == <<now, contacts, customField, leads, listDown, rejected, failures, ackedAt, initPc,
          timerSet, task, pin, pout>>

-----------------------------------------------------------------------------
(* Program constants *)

SYNC_BATCH_SIZE == 10
SYNC_CUTOFF_HOURS == 4
maxRetriesPush == 3
maxRetriesGet == 3
maxUpdateRetries == 3
maxRetriesList == 3

(* Bounds of the model *)

NumIds == 11       \* contact ids are 1..NumIds
MaxClock == 8      \* the clock stops advancing here
MaxFailures == 4   \* transient failures of remote calls in one behaviour
MaxPages == 2      \* pages whose offsets the model tells apart
MaxRuns == 1       \* run slots: runs of periodicSync alive at the same time
MaxIndexFailures == 2  \* transient failures in one behaviour of src/index.js

Ids == 1..NumIds

\* a page entry that is no contact object (null)
NullContact == 0

Range(s) == {s[i] : i \in DOMAIN s}

\* the offset of the first page that lies beyond every listing
PageCap == MaxPages * SYNC_BATCH_SIZE
Runs == 1..MaxRuns
Tasks == 0..MaxRuns

-----------------------------------------------------------------------------
(* JavaScript values *)

Undefined == [t |-> "undefined"]
Null == [t |-> "null"]
NaN == [t |-> "NaN"]
Str(s) == [t |-> "string", s |-> s]
Num(n) == [t |-> "number", n |-> n]
Bool(b) == [t |-> "boolean", b |-> b]
Arr(a) == [t |-> "array", a |-> a]

\* ToBoolean
Truthy(v) ==
    CASE v.t = "undefined" -> FALSE
      [] v.t = "null" -> FALSE
      [] v.t = "NaN" -> FALSE
      [] v.t = "string" -> v.s # <<>>
      [] v.t = "number" -> v.n # 0
      [] v.t = "boolean" -> v.b
      [] v.t = "array" -> TRUE
      [] v.t = "object" -> TRUE

\* a || b
Or(a, b) == IF Truthy(a) THEN a ELSE b

IsDigit(c) == c >= 48 /\ c <= 57

\* the longest prefix of decimal digits of s
RECURSIVE DigitPrefix(_)
DigitPrefix(s) ==
    IF s = <<>> \/ ~IsDigit(Head(s)) THEN <<>>
    ELSE <<Head(s)>> \o DigitPrefix(Tail(s))

RECURSIVE DigitsValue(_)
DigitsValue(s) ==
    IF s = <<>> THEN 0
    ELSE 10 * DigitsValue(SubSeq(s, 1, Len(s) - 1)) + (s[Len(s)] - 48)

\* parseFloat / parseInt on strings of digits and letters: the number denoted
\* by the leading digits, NaN when there is none
parseNumber(v) ==
    IF v.t = "string" /\ DigitPrefix(v.s) # <<>>
    THEN Num(DigitsValue(DigitPrefix(v.s)))
    ELSE NaN

\* a > b on two strings: by code unit, a proper prefix is smaller
RECURSIVE StrGT(_, _)
StrGT(a, b) ==
    IF a = <<>> THEN FALSE
    ELSE IF b = <<>> THEN TRUE
    ELSE IF Head(a) # Head(b) THEN Head(a) > Head(b)
    ELSE StrGT(Tail(a), Tail(b))

\* Date.prototype.toISOString of the reading h
toISOString(h) == Str(<<48 + (h \div 10), 48 + (h % 10)>>)

\* whether the string is a timestamp (Date.parse gives an instant)
ParsesAsInstant(v) ==
    v.t = "string" /\ Len(v.s) = 2 /\ IsDigit(v.s[1]) /\ IsDigit(v.s[2])

InstantOf(v) == DigitsValue(v.s)

-----------------------------------------------------------------------------
(* Pure helpers of the script *)

getCustomFieldValue(contact, fieldName) ==
    IF contact.customField = Undefined THEN Str(<<>>)
    ELSE IF fieldName \notin DOMAIN contact.customField THEN Str(<<>>)
    ELSE Or(contact.customField[fieldName], Str(<<>>))

\* the value the filter compares with the cutoff
lastSyncedOf(contact) ==
    Or(getCustomFieldValue(contact, "structurely_last_synced"),
       getCustomFieldValue(contact, "str_last_synced"))

\* a cutoff that is the run start itself
syncCutoffTimeString_NoWindow(start) == toISOString(start)

\* syncCutoffTime.setHours(getHours() - SYNC_CUTOFF_HOURS); toISOString()
syncCutoffTimeString(start) == toISOString(start - SYNC_CUTOFF_HOURS)

\* a comparison that also drops a contact stamped exactly at the cutoff
RecentlySynced_AtCutoff(lastSynced, cutoff) ==
    Truthy(lastSynced) /\ (StrGT(lastSynced.s, cutoff.s) \/ lastSynced.s = cutoff.s)

\* src/index.js: syncCutoffTime.setHours(syncCutoffTime.getHours() - 4)
syncCutoffTimeStringIndex(start) == toISOString(start - 4)

\* "lastSynced && lastSynced > syncCutoffTimeString"
RecentlySynced(lastSynced, cutoff) ==
    Truthy(lastSynced) /\ StrGT(lastSynced.s, cutoff.s)

\* a filter callback that never looks at the last-synced stamp
FilterVerdict_SeenOnly(contact, syncedContacts, cutoff) ==
    IF contact.id \in syncedContacts THEN "seen" ELSE "sync"

\* the callback of contacts.filter: "seen" and "recent" both count the
\* contact as skipped and drop it, "sync" keeps it
FilterVerdict(contact, syncedContacts, cutoff) ==
    IF contact.id \in syncedContacts THEN "seen"
    ELSE IF RecentlySynced(lastSyncedOf(contact), cutoff) THEN "recent"
    ELSE "sync"

\* the filter callback of src/index.js: contact.customField?.structurely_last_synced
FilterVerdictIndex(contact, syncedContacts, cutoff) ==
    IF contact.id \in syncedContacts THEN "seen"
    ELSE IF RecentlySynced(IF contact.customField = Undefined THEN Undefined
                           ELSE contact.customField.structurely_last_synced, cutoff)
         THEN "recent"
    ELSE "sync"

\* the ghlLead object periodicSync builds for a contact
GhlLeadOf(contact) ==
    [id |-> contact.id,
     priceMin |-> Or(getCustomFieldValue(contact, "property_min_price"), Str(<<48>>)),
     priceMax |-> Or(getCustomFieldValue(contact, "property_max_price"), Str(<<48>>)),
     bedrooms |-> Or(getCustomFieldValue(contact, "bedrooms"), Str(<<48>>)),
     bathrooms |-> Or(getCustomFieldValue(contact, "bathrooms"), Str(<<48>>))]

\* the ghlLead object runIntegrationTest builds for a contact:
\* "400000", "700000", "3", "2"
TestLeadOf(contact) ==
    [id |-> contact.id,
     priceMin |-> Str(<<52, 48, 48, 48, 48, 48>>),
     priceMax |-> Str(<<55, 48, 48, 48, 48, 48>>),
     bedrooms |-> Str(<<51>>),
     bathrooms |-> Str(<<50>>)]

\* "x ? parseFloat(x) : null"
NumberOrNull(v) == IF Truthy(v) THEN parseNumber(v) ELSE Null

\* the body syncLeadToStructurely posts
LeadPayload(ghlLead) ==
    [externalLeadId |-> ghlLead.id,
     priceMin |-> NumberOrNull(ghlLead.priceMin),
     priceMax |-> NumberOrNull(ghlLead.priceMax),
     bedrooms |-> NumberOrNull(ghlLead.bedrooms),
     bathrooms |-> NumberOrNull(ghlLead.bathrooms)]

-----------------------------------------------------------------------------
(* Remote stores *)

\* the contact object GET /contacts returns for an id
ContactOf(id) == [id |-> id, customField |-> customField[id]]

\* GET /contacts?limit=&offset= : the ids of the page
PageAt(limit, offset) ==
    IF offset >= Len(contacts) THEN <<>>
    ELSE SubSeq(contacts, offset + 1,
                IF offset + limit <= Len(contacts) THEN offset + limit
                ELSE Len(contacts))

\* a Lead Store that creates a lead for every POST
Upsert_Insert(store, lead) == store \cup {lead}

\* POST /leads on a Lead Store that upserts by externalLeadId
Upsert(store, lead) ==
    {l \in store : l.externalLeadId # lead.externalLeadId} \cup {lead}

\* the id the Lead Store gives the lead of an externalLeadId ("L" and a digit)
LeadIdOf(externalLeadId) == Str(<<76, 48 + (externalLeadId % 10)>>)

\* GET /leads/{id}: the lead of that id as the Lead Store keeps it, a new
\* lead in no stage, not muted, its properties not told
FetchedLead(leadId) ==
    [id |-> leadId, stages |-> Arr(<<>>), muted |-> Bool(FALSE), properties |-> Undefined]

\* lead.properties?.name
PropertyOf(lead, name) ==
    IF lead.properties.t \in {"undefined", "null"} THEN Undefined
    ELSE lead.properties.p[name]

\* value || ""
Passthrough(v) == Or(v, Str(<<>>))

\* Array.prototype.join: undefined and null entries are rendered empty
RECURSIVE Join(_, _)
Join(a, sep) ==
    IF a = <<>> THEN <<>>
    ELSE LET first == IF Head(a).t = "string" THEN Head(a).s ELSE <<>>
         IN IF Len(a) = 1 THEN first
            ELSE first \o sep \o Join(Tail(a), sep)

\* stages joined with the separator join has when it is given none
StagesText_DefaultJoin(stages) ==
    IF stages.t \in {"undefined", "null"} THEN Str(<<>>)
    ELSE Or(Str(Join(stages.a, <<44>>)), Str(<<>>))

\* lead.stages?.join(", ") || ""
StagesText(stages) ==
    IF stages.t \in {"undefined", "null"} THEN Str(<<>>)
    ELSE Or(Str(Join(stages.a, <<44, 32>>)), Str(<<>>))

\* lead.muted ? "Yes" : "No"
MutedText(muted) == IF Truthy(muted) THEN Str(<<89, 101, 115>>) ELSE Str(<<78, 111>>)

\* customFieldData of syncLeadFromStructurely: the lead id, the properties,
\* the conversation status, the muted flag and the stamp, under both
\* families of keys (the lead type and the conversation link are left out)
CustomFieldData(lead, stamp) ==
    [structurely_id |-> lead.id,
     structurely_reference |-> lead.id,
     structurely_lead_ref |-> lead.id,
     str_price_max |-> Passthrough(PropertyOf(lead, "priceMax")),
     str_price_min |-> Passthrough(PropertyOf(lead, "priceMin")),
     str_bedrooms |-> Passthrough(PropertyOf(lead, "bedrooms")),
     str_bathrooms |-> Passthrough(PropertyOf(lead, "bathrooms")),
     str_conversation_status |-> StagesText(lead.stages),
     str_timeframe |-> Passthrough(PropertyOf(lead, "timeframe")),
     str_location |-> Passthrough(PropertyOf(lead, "location")),
     str_property_type |-> Passthrough(PropertyOf(lead, "propertyType")),
     str_muted |-> MutedText(lead.muted),
     str_notes |-> Passthrough(PropertyOf(lead, "notes")),
     str_last_synced |-> stamp,
     structurely_lead_id |-> lead.id,
     structurely_price_max |-> Passthrough(PropertyOf(lead, "priceMax")),
     structurely_price_min |-> Passthrough(PropertyOf(lead, "priceMin")),
     structurely_bedrooms |-> Passthrough(PropertyOf(lead, "bedrooms")),
     structurely_bathrooms |-> Passthrough(PropertyOf(lead, "bathrooms")),
     structurely_ai_conversation_status |-> StagesText(lead.stages),
     structurely_timeframe |-> Passthrough(PropertyOf(lead, "timeframe")),
     structurely_location |-> Passthrough(PropertyOf(lead, "location")),
     structurely_property_type |-> Passthrough(PropertyOf(lead, "propertyType")),
     structurely_muted |-> MutedText(lead.muted),
     structurely_notes |-> Passthrough(PropertyOf(lead, "notes")),
     structurely_last_synced |-> stamp]

\* PUT /contacts/{id} {customField: data}: the keys of data are overwritten
Updated(old, data) ==
    [k \in DOMAIN old \cup DOMAIN data |->
        IF k \in DOMAIN data THEN data[k] ELSE old[k]]

-----------------------------------------------------------------------------
(* Tasks: the integration test and the runs of periodicSync *)

NoError == [op |-> "none", attempt |-> 0]

IdleTask ==
    [kind |-> "none", pc |-> "idle", offset |-> 0, retryCount |-> 0,
     pageLen |-> 0, toSync |-> <<>>, idx |-> 0, syncedContacts |-> {},
     totalProcessed |-> 0, totalSuccess |-> 0, totalSkipped |-> 0,
     totalFailed |-> 0, cutoff |-> Str(<<>>),
     leadId |-> Str(<<>>), stamp |-> Str(<<>>),
     \* observations (not read by the program)
     hAttempts |-> 0,      \* invocations of the remote operation in progress
     hPauses |-> 0,        \* retry pauses of the remote operation in progress
     hLast |-> [op |-> "none", attempts |-> 0, pauses |-> 0, caught |-> NoError],
     hStart |-> 0,         \* the clock when the run started
     hOverlap |-> FALSE,   \* another run was alive at some time during this one
     hKept |-> <<>>,       \* contacts the filter kept
     hListed |-> <<>>,     \* contacts returned by the pages fetched
     hSkipped |-> <<>>,    \* contacts the filter dropped
     hGaveUp |-> <<>>,     \* contacts whose push, fetch or update gave up
     hAcked |-> <<>>,      \* contacts whose write-back was acknowledged
     hPushed |-> <<>>,     \* contacts for which a push was started
     hPagesFailed |-> 0    \* pages whose fetch gave up
    ]

\* periodicSync, up to its first await
NewRun(start) ==
    [IdleTask EXCEPT !.kind = "run", !.pc = "list",
                     !.cutoff = syncCutoffTimeString(start),
                     !.hStart = start]

\* runIntegrationTest, up to its first await
NewTest == [IdleTask EXCEPT !.kind = "test", !.pc = "list"]

\* src/index.js: periodicSync and runIntegrationTest begin with
\* ensureCustomFieldsExist
NewIndexRun(start) == [IdleTask EXCEPT !.kind = "indexRun", !.pc = "fields", !.hStart = start]
NewIndexTest == [IdleTask EXCEPT !.kind = "indexTest", !.pc = "fields"]

\* the run initialize and the timer start: periodicSync of the same file
RunOf(test, start) ==
    IF test.kind = "indexTest" THEN NewIndexRun(start) ELSE NewRun(start)

IsTest(r) == r.kind \in {"test", "indexTest"}

Cur(r) == r.toSync[r.idx]

\* a retry loop that gives up one attempt early
RetryAfterFailure_OneShort(retryCount, maxRetries) ==
    [retryCount |-> retryCount + 1, giveUp |-> retryCount + 1 >= maxRetries]

\* the catch of a retry loop: count the failure, give up after maxRetries
RetryAfterFailure(retryCount, maxRetries) ==
    [retryCount |-> retryCount + 1, giveUp |-> retryCount + 1 > maxRetries]

MaxRetriesOf(op) ==
    CASE op = "list" -> maxRetriesList
      [] op = "push" -> maxRetriesPush
      [] op = "get" -> maxRetriesGet
      [] op = "put" -> maxUpdateRetries

\* a remote operation is started: the first attempt is about to be made
Begin(r, op) ==
    [r EXCEPT !.pc = op, !.retryCount = 0, !.hAttempts = 0, !.hPauses = 0]

\* a loop body that does not add the contact to syncedContacts
StartContact_Unmarked(r, i) ==
    LET id == r.toSync[i] IN
    Begin([r EXCEPT !.idx = i,
                    !.totalProcessed = @ + 1,
                    !.hPushed = Append(@, id)], "push")

\* a loop body that does not count the contact
StartContact_Uncounted(r, i) ==
    LET id == r.toSync[i] IN
    Begin([r EXCEPT !.idx = i,
                    !.syncedContacts = @ \cup {id},
                    !.hPushed = Append(@, id)], "push")

\* the loop body of "for (const contact of contactsToSync)" up to the push
StartContact(r, i) ==
    LET id == r.toSync[i] IN
    Begin([r EXCEPT !.idx = i,
                    !.totalProcessed = @ + 1,
                    !.syncedContacts = @ \cup {id},
                    !.hPushed = Append(@, id)], "push")

\* the task returns: its locals are gone, the totals it logged stay visible
Return(r) ==
    [r EXCEPT !.pc = "done", !.retryCount = 0, !.pageLen = 0, !.toSync = <<>>,
              !.idx = 0, !.syncedContacts = {}, !.cutoff = Str(<<>>),
              !.leadId = Str(<<>>), !.stamp = Str(<<>>)]

\* a rethrowing outermost handler: the error reaches the caller of periodicSync
RunFailed_Rethrow(r) == [Return(r) EXCEPT !.pc = "threw"]

\* the outermost catch of periodicSync: the error is logged, the run returns
RunFailed(r) == [Return(r) EXCEPT !.pc = "failed"]

\* an end of page that never clears hasMore
EndOfPage_NoStop(r) == Begin([r EXCEPT !.offset = @ + r.pageLen], "list")

\* an end of page that leaves the offset where it was
EndOfPage_SamePage(r) ==
    IF r.pageLen < SYNC_BATCH_SIZE THEN Return(r) ELSE Begin(r, "list")

\* an end of page that clears hasMore after every page
EndOfPage_OnePage(r) == Return([r EXCEPT !.offset = @ + r.pageLen])

\* after the for loop: the offset, hasMore, the pause between batches
EndOfPage(r) ==
    IF r.pageLen < SYNC_BATCH_SIZE
    THEN Return([r EXCEPT !.offset = @ + r.pageLen])
    ELSE Begin([r EXCEPT !.offset = @ + r.pageLen], "list")

\* the next iteration of the for loop, or the end of the page
NextContact(r) ==
    IF r.idx < Len(r.toSync) THEN StartContact(r, r.idx + 1) ELSE EndOfPage(r)

\* a for loop over the page itself instead of the filtered page
FilterPage_LoopsOverPage(r, page) ==
    IF NullContact \in Range(page) THEN RunFailed(r) ELSE
    LET verdict(i) == FilterVerdict(ContactOf(page[i]), r.syncedContacts, r.cutoff)
        keep == {i \in 1..Len(page) : verdict(i) = "sync"}
        kept == SelectSeq([i \in 1..Len(page) |-> IF i \in keep THEN page[i] ELSE 0],
                          LAMBDA x : x # 0)
        f == [r EXCEPT !.pageLen = Len(page),
                       !.toSync = page,
                       !.idx = 0,
                       !.totalSkipped = @ + (Len(page) - Cardinality(keep)),
                       !.hKept = @ \o kept,
                       !.hListed = @ \o page,
                       !.hSkipped = @ \o SelectSeq(
                           [i \in 1..Len(page) |-> IF i \in keep THEN 0 ELSE page[i]],
                           LAMBDA x : x # 0)]
    IN NextContact(f)

\* contacts.filter(...) on the page just fetched, then the for loop starts;
\* "contact.id" throws on an entry that is no object, outside the inner handlers
FilterPage(r, page) ==
    IF NullContact \in Range(page) THEN RunFailed(r) ELSE
    LET verdict(i) == IF r.kind = "indexRun"
                      THEN FilterVerdictIndex(ContactOf(page[i]), r.syncedContacts, r.cutoff)
                      ELSE FilterVerdict(ContactOf(page[i]), r.syncedContacts, r.cutoff)
        keep == {i \in 1..Len(page) : verdict(i) = "sync"}
        kept == SelectSeq([i \in 1..Len(page) |-> IF i \in keep THEN page[i] ELSE 0],
                          LAMBDA x : x # 0)
        f == [r EXCEPT !.pageLen = Len(page),
                       !.toSync = kept,
                       !.idx = 0,
                       !.totalSkipped = @ + (Len(page) - Cardinality(keep)),
                       !.hKept = @ \o kept,
                       !.hListed = @ \o page,
                       !.hSkipped = @ \o SelectSeq(
                           [i \in 1..Len(page) |-> IF i \in keep THEN 0 ELSE page[i]],
                           LAMBDA x : x # 0)]
    IN NextContact(f)

\* a page-fetch handler that fetches the same page again
PageFetchFailed_SamePage(r) ==
    Begin([r EXCEPT !.hPagesFailed = @ + 1], "list")

\* the catch around getGHLContacts in periodicSync; every page from PageCap
\* on is empty, and the offsets from there on are not told apart
PageFetchFailed(r) ==
    IF r.offset >= PageCap THEN Begin(r, "list")
    ELSE Begin([r EXCEPT !.offset = @ + SYNC_BATCH_SIZE,
                         !.hPagesFailed = @ + 1], "list")

\* a contact-level handler that leaves the for loop
ContactFailed_Break(r) ==
    EndOfPage([r EXCEPT !.totalFailed = @ + 1,
                        !.leadId = Str(<<>>), !.stamp = Str(<<>>)])

\* the catch around one contact's sync in periodicSync
ContactFailed(r) ==
    NextContact([r EXCEPT !.totalFailed = @ + 1,
                          !.leadId = Str(<<>>), !.stamp = Str(<<>>)])

\* a try block that ends without counting the contact
ContactSucceeded_Uncounted(r) ==
    NextContact([r EXCEPT !.leadId = Str(<<>>), !.stamp = Str(<<>>)])

\* the end of the try block of one contact's sync
ContactSucceeded(r) ==
    NextContact([r EXCEPT !.totalSuccess = @ + 1,
                          !.leadId = Str(<<>>), !.stamp = Str(<<>>)])

\* an error thrown by the operation in progress reaches its handler
Handle(r, err) ==
    LET seen == [r EXCEPT !.hLast = [op |-> r.pc, attempts |-> r.hAttempts,
                                      pauses |-> r.hPauses, caught |-> err]]
    IN IF r.kind = "test" THEN Return(seen)
       ELSE IF r.pc = "list" THEN PageFetchFailed(seen)
       ELSE ContactFailed([seen EXCEPT !.hGaveUp = Append(@, Cur(r))])

\* src/index.js: no call is retried, and only the contact's try block has a
\* handler of its own; a failed ensureCustomFieldsExist or getGHLContacts
\* reaches the outermost catch of periodicSync
HandleIndex(r, err) ==
    LET seen == [r EXCEPT !.hAttempts = @ + 1,
                          !.hLast = [op |-> r.pc, attempts |-> r.hAttempts + 1,
                                     pauses |-> 0, caught |-> err]]
    IN IF r.kind = "indexTest" THEN Return(seen)
       ELSE IF r.pc \in {"fields", "list"} THEN RunFailed(seen)
       ELSE ContactFailed([seen EXCEPT !.hGaveUp = Append(@, Cur(r))])

\* one failed attempt of the operation in progress
AfterFailure(r) ==
    LET a == [r EXCEPT !.hAttempts = @ + 1]
        step == RetryAfterFailure(r.retryCount, MaxRetriesOf(r.pc))
        err == [op |-> r.pc, attempt |-> a.hAttempts]
    IN IF step.giveUp THEN Handle([a EXCEPT !.retryCount = step.retryCount], err)
       ELSE [a EXCEPT !.retryCount = step.retryCount, !.hPauses = @ + 1]

\* a seen-set kept at module level: every task sees the ids of the others
Commit_SharedSeen(t, next) ==
    \E r \in {next} :
        LET returned == r.pc \in {"done", "failed"} IN
        /\ task' = IF t = 0 /\ returned /\ initPc = "test"
                   THEN [task EXCEPT ![0] = r, ![1] = RunOf(r, now)]
                   ELSE [u \in Tasks |->
                           IF u = t THEN r
                           ELSE [task[u] EXCEPT !.syncedContacts = @ \cup r.syncedContacts]]
        /\ initPc' = IF t = 0 /\ returned /\ initPc = "test" THEN "firstRun"
                     ELSE IF t = 1 /\ returned /\ initPc = "firstRun" THEN "running"
                     ELSE initPc
        /\ timerSet' = (timerSet \/ (t = 1 /\ returned /\ initPc = "firstRun"))

\* what initialize does when the task it awaits ends
Commit(t, next) ==
    \E r \in {next} :
        LET returned == r.pc \in {"done", "failed"} IN
        /\ task' = IF t = 0 /\ returned /\ initPc = "test"
                   THEN [task EXCEPT ![0] = r, ![1] = RunOf(r, now)]
                   ELSE [task EXCEPT ![t] = r]
        /\ initPc' = IF t = 0 /\ returned /\ initPc = "test" THEN "firstRun"
                     ELSE IF t = 1 /\ returned /\ initPc = "firstRun" THEN "running"
                     ELSE initPc
        /\ timerSet' = (timerSet \/ (t = 1 /\ returned /\ initPc = "firstRun"))

Active(t) == task[t].pc \in {"fields", "list", "push", "get", "put"}

\* the body of the POST /leads that task record r is making
Posted(r) ==
    LeadPayload(IF IsTest(r) THEN TestLeadOf(ContactOf(Cur(r)))
                ELSE GhlLeadOf(ContactOf(Cur(r))))

\* the environment: the call task t is making fails whenever it is made
MustFail(t) ==
    \/ task[t].pc = "list" /\ listDown
    \/ task[t].pc = "push" /\ Cur(task[t]) \in rejected

\* the environment: the call task t is making may fail for a passing reason
MayFail(t) == MustFail(t) \/ failures < MaxFailures

-----------------------------------------------------------------------------
(* Actions *)

\* a remote call of task t fails (timeout, 5xx, network error)
CallFails(t) ==
    /\ Active(t) /\ MayFail(t)
    /\ failures' = IF MustFail(t) THEN failures ELSE failures + 1
    /\ leads' \in IF task[t].pc = "push" /\ ~MustFail(t)
                  THEN {leads, Upsert(leads, Posted(task[t]))}
                  ELSE {leads}
    /\ Commit(t, AfterFailure(task[t]))
    /\ UNCHANGED <<now, contacts, customField, listDown, rejected, ackedAt, pin, pout>>

\* GET /contacts answers
ListOk(t) ==
    /\ task[t].pc = "list" /\ ~MustFail(t)
    /\ LET r == [task[t] EXCEPT !.hAttempts = @ + 1]
           page == PageAt(IF IsTest(r) THEN 1 ELSE SYNC_BATCH_SIZE, r.offset)
       IN Commit(t, IF page = <<>> THEN Return(r)
                    ELSE IF IsTest(r)
                         THEN IF page[1] = NullContact THEN Return(r) ELSE
                              Begin([r EXCEPT !.toSync = page, !.idx = 1,
                                              !.hPushed = Append(@, page[1])], "push")
                         ELSE FilterPage(r, page))
    /\ UNCHANGED <<now, contacts, customField, leads, listDown, rejected, failures, ackedAt, pin, pout>>

\* a push whose answer is followed by the write-back at once
PushOk_SkipFetch(t) ==
    /\ task[t].pc = "push" /\ ~MustFail(t)
    /\ LET r == [task[t] EXCEPT !.hAttempts = @ + 1]
           lead == Posted(r)
       IN /\ leads' = Upsert(leads, lead)
          /\ Commit(t, Begin([r EXCEPT !.leadId = LeadIdOf(lead.externalLeadId),
                                       !.stamp = toISOString(now)], "put"))
    /\ UNCHANGED <<now, contacts, customField, listDown, rejected, failures, ackedAt, pin, pout>>

\* POST /leads answers: the lead of the contact is created or updated
PushOk(t) ==
    /\ task[t].pc = "push" /\ ~MustFail(t)
    /\ LET r == [task[t] EXCEPT !.hAttempts = @ + 1]
           lead == Posted(r)
       IN /\ leads' = Upsert(leads, lead)
          /\ Commit(t, Begin([r EXCEPT !.leadId = LeadIdOf(lead.externalLeadId)], "get"))
    /\ UNCHANGED <<now, contacts, customField, listDown, rejected, failures, ackedAt, pin, pout>>

\* GET /leads/{id} answers: customFieldData is built, stamped with the clock
GetOk(t) ==
    /\ task[t].pc = "get"
    /\ LET r == [task[t] EXCEPT !.hAttempts = @ + 1]
       IN Commit(t, Begin([r EXCEPT !.stamp = toISOString(now)], "put"))
    /\ UNCHANGED <<now, contacts, customField, leads, listDown, rejected, failures, ackedAt, pin, pout>>

\* PUT /contacts/{id} answers: the custom fields are written
PutOk(t) ==
    /\ task[t].pc = "put"
    /\ LET r == [task[t] EXCEPT !.hAttempts = @ + 1, !.hAcked = Append(@, Cur(task[t]))]
       IN /\ customField' = [customField EXCEPT ![Cur(r)] =
                                Updated(@, CustomFieldData(FetchedLead(r.leadId), r.stamp))]
          /\ ackedAt' = [ackedAt EXCEPT ![Cur(r)] = now]
          /\ Commit(t, IF IsTest(r) THEN Return(r)
                       ELSE ContactSucceeded(r))
    /\ UNCHANGED <<now, contacts, leads, listDown, rejected, failures, pin, pout>>

\* src/index.js: a remote call of task t fails; it is not made again
CallFailsIndex(t) ==
    /\ Active(t) /\ (MustFail(t) \/ failures < MaxIndexFailures)
    /\ failures' = IF MustFail(t) THEN failures ELSE failures + 1
    /\ leads' \in IF task[t].pc = "push" /\ ~MustFail(t)
                  THEN {leads, Upsert(leads, Posted(task[t]))}
                  ELSE {leads}
    /\ Commit(t, HandleIndex(task[t], [op |-> task[t].pc, attempt |-> 1]))
    /\ UNCHANGED <<now, contacts, customField, listDown, rejected, ackedAt, pin, pout>>

\* src/index.js: ensureCustomFieldsExist answers (the field definitions it
\* may create are read by nothing else); periodicSync then takes its cutoff
FieldsOk(t) ==
    /\ task[t].pc = "fields"
    /\ LET r == [task[t] EXCEPT !.hAttempts = @ + 1]
       IN Commit(t, Begin(IF r.kind = "indexRun"
                          THEN [r EXCEPT !.cutoff = syncCutoffTimeStringIndex(now)]
                          ELSE r, "list"))
    /\ UNCHANGED <<now, contacts, customField, leads, listDown, rejected, failures, ackedAt, pin, pout>>

\* src/index.js, initialize(): the integration test is started
InitializeIndex ==
    /\ initPc = "start"
    /\ initPc' = "test"
    /\ task' = [task EXCEPT ![0] = NewIndexTest]
    /\ UNCHANGED <<now, contacts, customField, leads, listDown, rejected, failures, ackedAt, timerSet,
                   pin, pout>>

\* initialize(): the integration test is started
Initialize ==
    /\ initPc = "start"
    /\ initPc' = "test"
    /\ task' = [task EXCEPT ![0] = NewTest]
    /\ UNCHANGED <<now, contacts, customField, leads, listDown, rejected, failures, ackedAt, timerSet,
                   pin, pout>>

\* the interval timer fires: periodicSync is called, whatever runs are alive
TimerFires ==
    /\ timerSet
    /\ \E r \in Runs :
          /\ ~Active(r)
          /\ \A q \in Runs : q < r => Active(q)
          /\ task' = [q \in Tasks |->
                        IF q = r
                        THEN [RunOf(task[0], now) EXCEPT !.hOverlap = \E o \in Runs : Active(o)]
                        ELSE IF Active(q) THEN [task[q] EXCEPT !.hOverlap = TRUE]
                        ELSE task[q]]
    /\ UNCHANGED <<now, contacts, customField, leads, listDown, rejected, failures, ackedAt, initPc,
                   timerSet, pin, pout>>

\* an hour passes
ClockAdvances ==
    /\ now < MaxClock
    /\ now' = now + 1
    /\ UNCHANGED <<contacts, customField, leads, listDown, rejected, failures, ackedAt, initPc,
                   timerSet, task, pin, pout>>

TaskStep(t) ==
    \/ CallFails(t)
    \/ ListOk(t)
    \/ PushOk(t)
    \/ GetOk(t)
    \/ PutOk(t)

-----------------------------------------------------------------------------
(* The whole program: initialize, the integration test, the runs *)

NoFields == [k \in {"structurely_last_synced", "str_last_synced"} |-> Undefined]

Listing(n) == [i \in 1..n |-> i]

StartupListings == {<<>>, <<1>>, <<NullContact>>}

\* the process starts at the clock reading start
Startup(start, refused) ==
    /\ now \in start
    /\ contacts \in StartupListings
    /\ customField = [id \in Ids |-> NoFields]
    /\ leads = {}
    /\ listDown \in BOOLEAN
    /\ rejected \in refused
    /\ failures = 0
    /\ ackedAt = [id \in Ids |-> -1]
    /\ initPc = "start"
    /\ timerSet = FALSE
    /\ task = [t \in Tasks |-> IdleTask]
    /\ pin = Null
    /\ pout = Null

Init == Startup({SYNC_CUTOFF_HOURS}, {{}, {1}})

Next ==
    \/ Initialize
    \/ \E t \in Tasks : TaskStep(t)
    \/ TimerFires
    \/ ClockAdvances

Spec == Init /\ [][Next]_vars

\* src/index.js: the same program without retries and page-fetch handler
TaskStepIndex(t) ==
    \/ CallFailsIndex(t)
    \/ FieldsOk(t)
    \/ ListOk(t)
    \/ PushOk(t)
    \/ GetOk(t)
    \/ PutOk(t)

InitIndex == Startup({SYNC_CUTOFF_HOURS}, {{}, {1}})

NextIndex ==
    \/ InitializeIndex
    \/ \E t \in Tasks : TaskStepIndex(t)
    \/ TimerFires
    \/ ClockAdvances

SpecIndex == InitIndex /\ [][NextIndex]_vars

\* every remote call returns or fails in finite time, initialize is run, and
\* a registered timer keeps firing
InitLate == Startup({MaxClock - 1}, {{}})

FairSpec ==
    /\ InitLate /\ [][Next]_vars
    /\ WF_vars(Initialize)
    /\ \A t \in Tasks : WF_vars(TaskStep(t))
    /\ WF_vars(TimerFires)

-----------------------------------------------------------------------------
(* One run of periodicSync on its own *)

\* the contact has been written back at the clock reading h
StampedAt(h) ==
    [k \in {"structurely_last_synced", "str_last_synced"} |-> toISOString(h)]

RunListings ==
    {Listing(n) : n \in {0, 1, 2, 3, SYNC_BATCH_SIZE, NumIds}}
        \cup {<<1, 1>>, Listing(SYNC_BATCH_SIZE) \o <<1>>, <<1, NullContact>>}

\* periodicSync is called once, on one of the listings, with the contacts
\* of one of the sets recents written back in the same hour
RunStart(listings, recents, refused) ==
    /\ now = MaxClock
    /\ contacts \in listings
    /\ \E recent \in recents :
          customField = [id \in Ids |-> IF id \in recent THEN StampedAt(now)
                                         ELSE NoFields]
    /\ leads = {}
    /\ listDown \in BOOLEAN
    /\ rejected \in refused
    /\ failures = 0
    /\ ackedAt = [id \in Ids |-> -1]
    /\ initPc = "alone"
    /\ timerSet = FALSE
    /\ task = [t \in Tasks |-> IF t = 1 THEN NewRun(now) ELSE IdleTask]
    /\ pin = Null
    /\ pout = Null

InitRun == RunStart(RunListings, {{}, {2}}, {{}, {2}, {1, 3}})

InitShortRun == RunStart({Listing(n) : n \in 0..2}, {{}}, {{}})

NextRun == \E t \in Runs : TaskStep(t)

SpecRun == InitRun /\ [][NextRun]_vars

\* every remote call of a run returns or fails in finite time
FairSpecRun == InitShortRun /\ [][NextRun]_vars /\ \A t \in Runs : WF_vars(TaskStep(t))

\* src/index.js: periodicSync is called once, on one of the listings
InitIndexRun ==
    /\ now = MaxClock
    /\ contacts \in RunListings
    /\ \E recent \in {{}, {2}} :
          customField = [id \in Ids |-> IF id \in recent THEN StampedAt(now)
                                         ELSE NoFields]
    /\ leads = {}
    /\ listDown \in BOOLEAN
    /\ rejected \in {{}, {2}, {1, 3}}
    /\ failures = 0
    /\ ackedAt = [id \in Ids |-> -1]
    /\ initPc = "alone"
    /\ timerSet = FALSE
    /\ task = [t \in Tasks |-> IF t = 1 THEN NewIndexRun(now) ELSE IdleTask]
    /\ pin = Null
    /\ pout = Null

NextIndexRun == \E t \in Runs : TaskStepIndex(t)

SpecIndexRun == InitIndexRun /\ [][NextIndexRun]_vars

IsRun(t) == task[t].kind = "run"

IsIndexRun(t) == task[t].kind = "indexRun"

Done(t) == task[t].pc = "done"

Failed(t) == task[t].pc = "failed"

-----------------------------------------------------------------------------
(* The filter callback and the lead mapping on their own *)

Quiet ==
    /\ now = 0
    /\ contacts = <<>>
    /\ customField = [id \in Ids |-> NoFields]
    /\ leads = {}
    /\ listDown = FALSE
    /\ rejected = {}
    /\ failures = 0
    /\ ackedAt = [id \in Ids |-> -1]
    /\ timerSet = FALSE
    /\ task = [t \in Tasks |-> IdleTask]

Instants == 0..(MaxClock + SYNC_CUTOFF_HOURS)

\* "n/a"
NotADate == Str(<<110, 47, 97>>)

LastSyncedValues == {Undefined, Str(<<>>), NotADate} \cup {toISOString(h) : h \in Instants}

\* contact 1 as the Contact Store may return it, and the state of the run
FilterInputs ==
    [contact : [id : {1},
                customField : [structurely_last_synced : LastSyncedValues,
                               str_last_synced : LastSyncedValues]],
     syncedContacts : {{}, {1}},
     start : SYNC_CUTOFF_HOURS..(MaxClock + SYNC_CUTOFF_HOURS)]

InitFilter ==
    /\ Quiet
    /\ initPc = "filter"
    /\ pin \in FilterInputs
    /\ pout = Null

ApplyFilter ==
    /\ initPc = "filter" /\ pout = Null
    /\ pout' = [t |-> "verdict",
                verdict |-> FilterVerdict(pin.contact, pin.syncedContacts,
                                          syncCutoffTimeString(pin.start))]
    /\ UNCHANGED <<now, contacts, customField, leads, listDown, rejected, failures,
                   ackedAt, initPc, timerSet, task, pin>>

SpecFilter == InitFilter /\ [][ApplyFilter]_vars

\* "400000", "3", "abc"
PriceText == Str(<<52, 48, 48, 48, 48, 48>>)
CountText == Str(<<51>>)
Letters == Str(<<97, 98, 99>>)

NumericFieldValues == {Undefined, Str(<<>>), PriceText, CountText, Letters}

MapInputs ==
    [id : {1},
     customField : [property_min_price : NumericFieldValues,
                    property_max_price : NumericFieldValues,
                    bedrooms : {Undefined, CountText},
                    bathrooms : {Undefined, CountText}]]

InitMap ==
    /\ Quiet
    /\ initPc = "map"
    /\ pin \in MapInputs
    /\ pout = Null

\* the lead record periodicSync and syncLeadToStructurely make of a contact
ApplyMap ==
    /\ initPc = "map" /\ pout = Null
    /\ pout' = LeadPayload(GhlLeadOf(pin))
    /\ UNCHANGED <<now, contacts, customField, leads, listDown, rejected, failures,
                   ackedAt, initPc, timerSet, task, pin>>

SpecMap == InitMap /\ [][ApplyMap]_vars

\* "new", "qualified"
StageNew == Str(<<110, 101, 119>>)
StageQualified == Str(<<113, 117, 97, 108, 105, 102, 105, 101, 100>>)

StagesValues ==
    {Undefined, Null}
        \cup {Arr(a) : a \in UNION {[1..n -> {StageNew, StageQualified}] : n \in 0..2}}

Obj(p) == [t |-> "object", p |-> p]

\* "Austin"
Text == Str(<<65, 117, 115, 116, 105, 110>>)

\* lead.properties: absent, or an object whose properties are absent, zero,
\* empty or set
PropertiesValues ==
    {Undefined}
        \cup {Obj(p) : p \in [priceMax : {Undefined, Num(0), Num(700000)},
                              priceMin : {Undefined, Num(400000)},
                              bedrooms : {Undefined, Num(0), Num(3)},
                              bathrooms : {Undefined, Num(2)},
                              timeframe : {Undefined, Text},
                              location : {Undefined, Text},
                              propertyType : {Undefined, Text},
                              notes : {Undefined, Str(<<>>), Text}]}

\* a lead as the Lead Store may return it, and the clock reading
WriteBackInputs ==
    [lead : [id : {LeadIdOf(1), LeadIdOf(2)},
             stages : StagesValues,
             muted : {Undefined, Bool(TRUE), Bool(FALSE)},
             properties : PropertiesValues],
     at : {0, MaxClock}]

InitWriteBack ==
    /\ Quiet
    /\ initPc = "writeBack"
    /\ pin \in WriteBackInputs
    /\ pout = Null

\* the custom-field map syncLeadFromStructurely makes of a fetched lead
ApplyWriteBack ==
    /\ initPc = "writeBack" /\ pout = Null
    /\ pout' = CustomFieldData(pin.lead, toISOString(pin.at))
    /\ UNCHANGED <<now, contacts, customField, leads, listDown, rejected, failures,
                   ackedAt, initPc, timerSet, task, pin>>

SpecWriteBack == InitWriteBack /\ [][ApplyWriteBack]_vars

Aliases == {"structurely_last_synced", "str_last_synced"}

Filtered == initPc = "filter" /\ pout # Null

Kept == pout.verdict = "sync"

CutoffInstant == pin.start - SYNC_CUTOFF_HOURS

\* the contact carries the last-synced instant T: under each alias nothing or T
LastSyncedIs(T) ==
    /\ \A k \in Aliases : pin.contact.customField[k] \in {Undefined, Str(<<>>), toISOString(T)}
    /\ \E k \in Aliases : pin.contact.customField[k] = toISOString(T)

NeverSynced == \A k \in Aliases : pin.contact.customField[k] \in {Undefined, Str(<<>>)}

\* C4: eligibility by cutoff. A contact not yet seen in the run is dropped
\* exactly when one of its last-synced values denotes an instant later than
\* the run start minus 4 hours; it is kept when it was never synced, when it
\* was synced at or before the cutoff, and when the value is no instant.
C4_EligibilityByCutoff ==
    (Filtered /\ pin.syncedContacts = {}) =>
        (~Kept <=> \E k \in Aliases :
                      LET v == pin.contact.customField[k]
                      IN ParsesAsInstant(v) /\ InstantOf(v) > CutoffInstant)

\* C5 as stated: a contact last synced at T is dropped for every cutoff
\* before T + 4 hours and kept for every cutoff from T + 4 hours on.
C5_AsStated ==
    (Filtered /\ pin.syncedContacts = {}) =>
        /\ \A T \in Instants :
              LastSyncedIs(T) => (Kept <=> CutoffInstant >= T + SYNC_CUTOFF_HOURS)
        /\ NeverSynced => Kept

\* C5: eligibility monotonicity. A contact last synced at T is dropped for
\* every cutoff before T and kept for every cutoff from T on, which is every
\* run that starts at T + 4 hours or later; a contact without a last-synced
\* value is kept whatever the cutoff.
C5_EligibilityMonotonicity ==
    (Filtered /\ pin.syncedContacts = {}) =>
        /\ \A T \in Instants :
              LastSyncedIs(T) =>
                  /\ Kept <=> CutoffInstant >= T
                  /\ Kept <=> pin.start >= T + SYNC_CUTOFF_HOURS
        /\ NeverSynced => Kept

\* synced at 2, cutoff 3: kept, though the cutoff is before 2 + 4
C5_Witness ==
    /\ Filtered /\ pin.syncedContacts = {}
    /\ LastSyncedIs(2) /\ CutoffInstant = 3
    /\ Kept

Mapped == initPc = "map" /\ pout # Null

Absent(fieldName) == getCustomFieldValue(pin, fieldName) = Str(<<>>)

\* C6: null versus zero. A contact without a minimum price, maximum price,
\* bedrooms or bathrooms field is pushed with null, not 0, in its place, and
\* a minimum price of "400000" is pushed as the number 400000.
C6_NullNotZero ==
    Mapped =>
        /\ Absent("property_min_price") => pout.priceMin = Null
        /\ Absent("property_max_price") => pout.priceMax = Null
        /\ Absent("bedrooms") => pout.bedrooms = Null
        /\ Absent("bathrooms") => pout.bathrooms = Null
        /\ pin.customField.property_min_price = PriceText => pout.priceMin = Num(400000)

-----------------------------------------------------------------------------
(* Properties of one run *)

\* C1: partial-failure isolation. Whatever contacts of a page give up on their
\* push, fetch or update, the run attempts the eligible contacts one after the
\* other in the order of the listing; when it ends, processed is the number of
\* eligible contacts, failed the number that gave up, succeeded the rest, and
\* every eligible contact that did not give up has been written back.
C1_PartialFailureIsolation ==
    \A r \in Runs : IsRun(r) =>
        LET k == task[r] IN
        /\ k.hPushed = SubSeq(k.hKept, 1, Len(k.hPushed))
        /\ Done(r) =>
              /\ k.hPushed = k.hKept
              /\ k.totalProcessed = Len(k.hKept)
              /\ k.totalFailed = Len(k.hGaveUp)
              /\ k.totalSuccess = k.totalProcessed - Len(k.hGaveUp)
              /\ Len(k.hAcked) = k.totalSuccess
              /\ \A c \in Range(k.hKept) \ Range(k.hGaveUp) :
                    /\ c \in Range(k.hAcked)
                    /\ Truthy(lastSyncedOf(ContactOf(c)))

\* three contacts, the second gives up: processed 3, succeeded 2, failed 1
C1_Witness ==
    /\ contacts = Listing(3)
    /\ Done(1)
    /\ task[1].totalProcessed = 3 /\ task[1].totalSuccess = 2
    /\ task[1].totalFailed = 1 /\ task[1].totalSkipped = 0
    /\ task[1].hGaveUp = <<2>> /\ task[1].hAcked = <<1, 3>>

\* C2: within one run no contact id is pushed to the Lead Store twice,
\* whatever the pages of the Contact Store contain.
C2_NoContactPushedTwice ==
    \A r \in Runs : IsRun(r) =>
        \A i, j \in DOMAIN task[r].hPushed :
            i # j => task[r].hPushed[i] # task[r].hPushed[j]

\* C3: retry exhaustion. An operation that gives up has been invoked exactly
\* 4 times with exactly 3 pauses, its handler receives the error of the 4th
\* attempt, and a run counts one failed contact for each push, fetch or
\* update that gave up; no operation is invoked a 5th time.
C3_RetryExhaustion ==
    \A t \in Tasks :
        LET k == task[t] IN
        /\ k.hLast.op # "none" =>
              /\ k.hLast.attempts = 4
              /\ k.hLast.pauses = 3
              /\ k.hLast.caught = [op |-> k.hLast.op, attempt |-> 4]
        /\ k.hAttempts <= 4 /\ k.hPauses <= 3
        /\ IsRun(t) => k.totalFailed = Len(k.hGaveUp)

\* the update of the only contact gave up, and the run counted it failed once
C3_Witness ==
    /\ contacts = Listing(1)
    /\ Done(1)
    /\ task[1].hLast = [op |-> "put", attempts |-> 4, pauses |-> 3,
                        caught |-> [op |-> "put", attempt |-> 4]]
    /\ task[1].hGaveUp = <<1>>
    /\ task[1].totalFailed = 1

\* C7: page-fetch failure. When the list call of a page gives up, the run
\* moves the offset one page on, leaves its four counters alone, has pushed
\* and written back nothing more, and goes on to fetch the next page.
C7_PageFetchFailure ==
    [][\A r \in Runs :
          task'[r].hPagesFailed = task[r].hPagesFailed + 1 =>
              /\ task[r].pc = "list" /\ task'[r].pc = "list"
              /\ task'[r].retryCount = 0
              /\ task'[r].offset = task[r].offset + 10
              /\ task'[r].totalProcessed = task[r].totalProcessed
              /\ task'[r].totalSuccess = task[r].totalSuccess
              /\ task'[r].totalSkipped = task[r].totalSkipped
              /\ task'[r].totalFailed = task[r].totalFailed
              /\ task'[r].hPushed = task[r].hPushed
              /\ task'[r].hAcked = task[r].hAcked
              /\ leads' = leads /\ customField' = customField]_vars

\* the first page of eleven contacts was lost, the eleventh was processed
C7_Witness ==
    /\ contacts = Listing(NumIds)
    /\ Done(1)
    /\ task[1].hPagesFailed = 1
    /\ task[1].hPushed = <<NumIds>>
    /\ task[1].totalProcessed = 1 /\ task[1].totalSuccess = 1
    /\ task[1].totalSkipped = 0 /\ task[1].totalFailed = 0

\* C8: run termination. When every remote call returns or fails in finite
\* time, every run of periodicSync eventually returns, also when the list
\* call of the Contact Store fails on every attempt.
C8_RunTerminates == \A r \in Runs : (IsRun(r) ~> (Done(r) \/ Failed(r)))

-----------------------------------------------------------------------------
(* Properties of the whole program *)

\* the run in slot r started after every write-back of contact c so far and
\* shared no time with another run
LaterRun(r, c) ==
    /\ IsRun(r)
    /\ ~task[r].hOverlap
    /\ c \notin Range(task[r].hAcked)

\* C9 as stated: W is the instant at which the write-back was acknowledged.
C9_AsStated ==
    \A r \in Runs, c \in Ids :
        LaterRun(r, c) =>
            LET k == task[r]
                W == ackedAt[c]
                S == k.hStart
            IN /\ (W >= 0 /\ W <= S /\ S - SYNC_CUTOFF_HOURS < W) =>
                     /\ c \notin Range(k.hPushed)
                     /\ Done(r) => c \in Range(k.hSkipped)
               /\ (W >= 0 /\ S - SYNC_CUTOFF_HOURS >= W /\ Done(r)
                      /\ c \in Range(k.hListed)) => c \in Range(k.hPushed)
               /\ (W < 0 /\ Done(r) /\ c \in Range(k.hListed)) =>
                     c \in Range(k.hPushed)

\* C9: durable marker across runs. An acknowledged write-back leaves on the
\* contact a last-synced stamp W taken no later than the acknowledgement.
\* Every later run that shares no time with another run and starts at S with
\* S - 4h < W pushes nothing for the contact, and counts it skipped when it
\* fetches the contact's page; a run with S - 4h >= W that fetches the page
\* processes the contact again, and so does every run that fetches the page
\* of a contact that was never written back.
C9_DurableMarker ==
    \A c \in Ids :
        LET v == lastSyncedOf(ContactOf(c)) IN
        /\ Truthy(v) <=> ackedAt[c] >= 0
        /\ Truthy(v) => ParsesAsInstant(v) /\ InstantOf(v) <= ackedAt[c]
        /\ \A r \in Runs :
              LaterRun(r, c) =>
                  LET k == task[r]
                      S == k.hStart
                  IN /\ (Truthy(v) /\ S - SYNC_CUTOFF_HOURS < InstantOf(v)) =>
                           /\ c \notin Range(k.hPushed)
                           /\ c \in Range(k.hListed) => c \in Range(k.hSkipped)
                     /\ (Truthy(v) /\ S - SYNC_CUTOFF_HOURS >= InstantOf(v)
                            /\ Done(r) /\ c \in Range(k.hListed)) =>
                           c \in Range(k.hPushed)
                     /\ (~Truthy(v) /\ Done(r) /\ c \in Range(k.hListed)) =>
                           c \in Range(k.hPushed)

\* contact 1 was written back during the first run; the run that started two
\* hours after the stamp has listed it, skipped it and pushed nothing
C9_Witness ==
    /\ initPc = "running"
    /\ lastSyncedOf(ContactOf(1)) = toISOString(SYNC_CUTOFF_HOURS + 1)
    /\ ackedAt[1] = SYNC_CUTOFF_HOURS + 1
    /\ LaterRun(1, 1) /\ Done(1)
    /\ task[1].hStart = SYNC_CUTOFF_HOURS + 3
    /\ task[1].hListed = <<1>> /\ task[1].hSkipped = <<1>>
    /\ task[1].hPushed = <<>>
    /\ task[1].totalSkipped = 1 /\ task[1].totalProcessed = 0

\* C10: scheduler. After process start a first run is started, and the
\* interval timer that starts a run on every tick is registered, whatever
\* the integration test and the first run do.
C10_Scheduler == <>IsRun(1) /\ <>timerSet

-----------------------------------------------------------------------------
(* Two runs in flight: a tick has fired while the run before it was going *)

\* the timer is registered, one run is in flight and a tick starts another
InitOverlap ==
    /\ now = MaxClock
    /\ contacts \in {Listing(1), Listing(2)}
    /\ customField = [id \in Ids |-> NoFields]
    /\ leads = {}
    /\ listDown = FALSE
    /\ rejected = {}
    /\ failures = 0
    /\ ackedAt = [id \in Ids |-> -1]
    /\ initPc = "running"
    /\ timerSet = TRUE
    /\ task = [t \in Tasks |-> IF t \in {0, 1}
                                THEN [NewRun(now) EXCEPT !.hOverlap = TRUE]
                                ELSE IdleTask]
    /\ pin = Null
    /\ pout = Null

NextOverlap == \E t \in Tasks : TaskStep(t)

SpecOverlap == InitOverlap /\ [][NextOverlap]_vars

\* the entries that the step appends to the sequence h of task t
Appended(t, h(_)) == SubSeq(h(task'[t]), Len(h(task[t])) + 1, Len(h(task'[t])))

ListedOf(k) == k.hListed
KeptOf(k) == k.hKept
SkippedOf(k) == k.hSkipped

RunStarts(r) == ~Active(r) /\ task'[r].kind = "run" /\ task'[r].pc = "list"

\* C11: a run's failure never affects the scheduler. No run hands an error
\* to its caller; once a run has ended through its outermost handler the
\* interval timer is registered and a tick can start a run; and every run
\* that is started begins with offset 0, an empty seen-set and all four
\* counters 0, whatever the run before it did.
C11_RunFailureIsolated ==
    /\ [](\A r \in Runs :
            /\ task[r].pc # "threw"
            /\ Failed(r) => timerSet /\ ENABLED TimerFires)
    /\ [][\A r \in Runs :
            RunStarts(r) =>
                /\ task'[r].offset = 0
                /\ task'[r].syncedContacts = {}
                /\ task'[r].totalProcessed = 0 /\ task'[r].totalSuccess = 0
                /\ task'[r].totalSkipped = 0 /\ task'[r].totalFailed = 0]_vars

\* the listing holds an entry that is no contact, so the first run ended
\* through its outermost handler; a tick has started the next run
C11_Witness ==
    /\ contacts = <<NullContact>>
    /\ initPc = "running" /\ timerSet
    /\ IsRun(1) /\ task[1].pc = "list" /\ task[1].offset = 0
    /\ task[1].hStart > SYNC_CUTOFF_HOURS

-----------------------------------------------------------------------------
(* Order and bookkeeping of one run *)

\* a is b with some entries left out
RECURSIVE IsSubSeq(_, _)
IsSubSeq(a, b) ==
    IF a = <<>> THEN TRUE
    ELSE IF b = <<>> THEN FALSE
    ELSE IF Head(a) = Head(b) THEN IsSubSeq(Tail(a), Tail(b))
    ELSE IsSubSeq(a, Tail(b))

\* contacts whose processing has come to its end, one way or the other
Finished(k) == Len(k.hAcked) + Len(k.hGaveUp)

\* the step of run r starts the list call of another page
NextFetch(r) ==
    /\ Active(r) /\ task'[r].pc = "list"
    /\ \/ task[r].pc # "list"
       \/ task'[r].hPagesFailed # task[r].hPagesFailed
       \/ Len(task'[r].hListed) > Len(task[r].hListed)

\* C14: ordering. The contacts a run has fetched are the listing in its
\* order, the eligible ones among them are processed in that order, one at a
\* time; whenever the run is about to list a page every contact of the pages
\* before has been processed to its end; and each list call of another
\* page is made at a larger offset than the one before.
C14_Ordering ==
    /\ [](\A r \in Runs : IsRun(r) =>
            LET k == task[r] IN
            /\ IsSubSeq(k.hListed, contacts)
            /\ IsSubSeq(k.hKept, k.hListed)
            /\ k.hPushed = SubSeq(k.hKept, 1, Len(k.hPushed))
            /\ k.pc \in {"push", "get", "put"} => Finished(k) = Len(k.hPushed) - 1
            /\ k.pc \in {"list", "done"} =>
                  k.hPushed = k.hKept /\ Finished(k) = Len(k.hPushed))
    /\ [][\A r \in Runs : (IsRun(r) /\ NextFetch(r)) =>
                                task'[r].offset > task[r].offset]_vars

\* eleven contacts: ten processed in order, then the second page is fetched
\* at offset 10 and the eleventh is processed
C14_Witness ==
    /\ contacts = Listing(NumIds)
    /\ Done(1)
    /\ task[1].hListed = Listing(NumIds)
    /\ task[1].hPushed = Listing(NumIds)
    /\ task[1].offset = NumIds

-----------------------------------------------------------------------------
(* The write-back *)

WrittenBack == initPc = "writeBack" /\ pout # Null

\* the text the claim gives for the stages of a lead
StatusAsStated(stages) ==
    IF stages.t \in {"undefined", "null"} THEN Str(<<>>)
    ELSE IF Len(stages.a) = 0 THEN Str(<<>>)
    ELSE IF Len(stages.a) = 1 THEN stages.a[1]
    ELSE Str(stages.a[1].s \o <<44, 32>> \o stages.a[2].s)

\* C15: write-back content. The custom-field map made of a fetched lead has
\* structurely_lead_id = the lead's id, structurely_ai_conversation_status =
\* the stages joined with ", " (the empty string when there are none) and
\* structurely_muted = "Yes" when muted is true, "No" otherwise; the lead
\* {id: "L1", stages: ["new", "qualified"], muted: false} yields "L1",
\* "new, qualified", "No".
C15_WriteBackContent ==
    WrittenBack =>
        /\ pout.structurely_lead_id = pin.lead.id
        /\ pout.structurely_ai_conversation_status = StatusAsStated(pin.lead.stages)
        /\ pout.structurely_muted = IF pin.lead.muted = Bool(TRUE) THEN Str(<<89, 101, 115>>)
                                    ELSE Str(<<78, 111>>)
        /\ (/\ pin.lead.id = Str(<<76, 49>>)
            /\ pin.lead.stages = Arr(<<StageNew, StageQualified>>)
            /\ pin.lead.muted = Bool(FALSE)) =>
              /\ pout.structurely_lead_id = Str(<<76, 49>>)
              /\ pout.structurely_ai_conversation_status =
                    Str(<<110, 101, 119, 44, 32, 113, 117, 97, 108, 105, 102, 105, 101, 100>>)
              /\ pout.structurely_muted = Str(<<78, 111>>)

\* the lead of the example has been written back
C15_Witness ==
    /\ WrittenBack
    /\ pin.lead.id = Str(<<76, 49>>)
    /\ pin.lead.stages = Arr(<<StageNew, StageQualified>>)
    /\ pin.lead.muted = Bool(FALSE)
    /\ pout.structurely_ai_conversation_status =
          Str(<<110, 101, 119, 44, 32, 113, 117, 97, 108, 105, 102, 105, 101, 100>>)

-----------------------------------------------------------------------------
(* The protocol of one contact *)

\* the Lead Store holds the lead of contact c
LeadOf(c) == \E l \in leads : l.externalLeadId = c

\* C16: per-contact protocol. For each contact a run processes the calls
\* come in the order push-lead, fetch-lead, update-contact: the fetch is
\* entered only from a push that succeeded and asks for the lead id that
\* push returned, the update is entered only from a fetch that succeeded
\* and is the only step that writes the contact, and succeeded is
\* incremented exactly by the step in which the update succeeds, so that
\* it counts the contacts for which all three operations succeeded.
C16_TwoStepProtocol ==
    /\ [](\A r \in Runs : IsRun(r) =>
            LET k == task[r] IN
            /\ k.totalSuccess = Len(k.hAcked)
            /\ k.totalFailed = Len(k.hGaveUp)
            /\ \A i \in DOMAIN k.hAcked :
                  /\ LeadOf(k.hAcked[i])
                  /\ customField[k.hAcked[i]].structurely_lead_id = LeadIdOf(k.hAcked[i])
            /\ k.pc \in {"get", "put"} => LeadOf(Cur(k)) /\ k.leadId = LeadIdOf(Cur(k))
            /\ k.pc = "put" => k.stamp # Str(<<>>))
    /\ [][\A r \in Runs : (IsRun(r) /\ Active(r)) =>
            LET k == task[r]
                n == task'[r]
            IN /\ (n.pc = "get" /\ k.pc # "get") =>
                     /\ k.pc = "push" /\ Cur(n) = Cur(k)
                     /\ failures' = failures
                     /\ n.hAttempts = 0
               /\ (n.pc = "put" /\ k.pc # "put") =>
                     /\ k.pc = "get" /\ Cur(n) = Cur(k) /\ n.leadId = k.leadId
                     /\ failures' = failures
                     /\ n.hAttempts = 0
               /\ customField' # customField => k.pc = "put"
               /\ n.totalSuccess # k.totalSuccess <=>
                     /\ k.pc = "put"
                     /\ n.totalSuccess = k.totalSuccess + 1
                     /\ n.hAcked = Append(k.hAcked, Cur(k))
                     /\ customField'[Cur(k)] =
                           Updated(customField[Cur(k)],
                                   CustomFieldData(FetchedLead(k.leadId), k.stamp))]_vars

\* three contacts, the second refused by the Lead Store: two went through
\* the three calls and were counted succeeded, one was counted failed
C16_Witness ==
    /\ contacts = Listing(3)
    /\ Done(1)
    /\ task[1].hAcked = <<1, 3>>
    /\ task[1].hGaveUp = <<2>>
    /\ task[1].totalSuccess = 2
    /\ task[1].totalFailed = 1

-----------------------------------------------------------------------------
(* The end of the pagination *)

\* the step of run r is the answer to its list call
PageFetched(r) ==
    /\ task[r].pc = "list"
    /\ task'[r] # task[r]
    /\ task'[r].hPagesFailed = task[r].hPagesFailed
    /\ task'[r].pc # "failed"
    /\ task'[r].pc # "list" \/ task'[r].hListed # task[r].hListed

\* C17: end of pagination. The answer to a list call that is an empty page
\* ends the run with nothing filtered, counted or pushed; the contacts of a
\* short page are all filtered and, while they are processed and after, the
\* run makes no further list call; and a run is DONE only when every
\* contact it has listed is filtered and every one it kept is processed to
\* its end.
C17_EndOfPagination ==
    /\ [][\A r \in Runs : IsRun(r) =>
            LET k == task[r]
                n == task'[r]
                page == PageAt(SYNC_BATCH_SIZE, k.offset)
            IN /\ (PageFetched(r) /\ page = <<>>) =>
                     /\ n.pc = "done"
                     /\ n.hListed = k.hListed /\ n.hPushed = k.hPushed
                     /\ n.totalProcessed = k.totalProcessed
                     /\ n.totalSkipped = k.totalSkipped
               /\ (PageFetched(r) /\ page # <<>> /\ Len(page) < SYNC_BATCH_SIZE) =>
                     /\ n.pc # "list"
                     /\ n.hListed = k.hListed \o page
                     /\ Len(n.hKept) + Len(n.hSkipped) = Len(n.hListed)
                     /\ n.pc \in {"push", "get", "put"} => n.pageLen = Len(page)
               /\ (k.pc \in {"push", "get", "put"} /\ k.pageLen < SYNC_BATCH_SIZE) =>
                     n.pc # "list"
               /\ k.pc = "done" => n.pc = "done"
               /\ (n.pc = "done" /\ k.pc # "done") =>
                     /\ Len(n.hKept) + Len(n.hSkipped) = Len(n.hListed)
                     /\ n.hPushed = n.hKept
                     /\ Finished(n) = Len(n.hPushed)]_vars

\* eleven contacts: the second page holds one, it is processed, and the run
\* is DONE after two list calls
C17_Witness ==
    /\ contacts = Listing(NumIds)
    /\ ~listDown /\ failures = 0
    /\ Done(1)
    /\ task[1].hPagesFailed = 0
    /\ task[1].hListed = Listing(NumIds)
    /\ task[1].hPushed[Len(task[1].hPushed)] = NumIds
    /\ Finished(task[1]) = NumIds

-----------------------------------------------------------------------------
(* The counters of one run *)

\* how often c occurs in s
Count(s, c) == Cardinality({i \in DOMAIN s : s[i] = c})

\* C18: counter conservation. Whenever a run is about to list a page and
\* when it is DONE, processed + skipped is the number of contacts the pages
\* fetched so far returned: skipped counts the contacts the filter
\* rejected, processed the ones whose processing was started, and every
\* returned contact is in exactly one of the two, as often as it was
\* returned. Within a page the sum falls short by the contacts of the page
\* still waiting.
C18_CounterConservation ==
    \A r \in Runs : (IsRun(r) /\ ~Failed(r)) =>
        LET k == task[r] IN
        /\ k.totalSkipped = Len(k.hSkipped)
        /\ k.totalProcessed = Len(k.hPushed)
        /\ k.pc \in {"list", "done"} =>
              /\ k.totalProcessed + k.totalSkipped = Len(k.hListed)
              /\ \A c \in Ids : Count(k.hListed, c) = Count(k.hPushed, c) + Count(k.hSkipped, c)
        /\ k.pc \in {"push", "get", "put"} =>
              k.totalProcessed + k.totalSkipped + (Len(k.toSync) - k.idx) = Len(k.hListed)

\* three contacts returned, the second synced within the cutoff: two
\* processed and one skipped
C18_Witness ==
    /\ contacts = Listing(3)
    /\ Done(1)
    /\ task[1].hListed = Listing(3)
    /\ task[1].hSkipped = <<2>>
    /\ task[1].totalProcessed = 2
    /\ task[1].totalSkipped = 1

-----------------------------------------------------------------------------
(* The last-synced aliases *)

\* C19: last-synced aliases. A contact is dropped by the filter whenever
\* structurely_last_synced or str_last_synced holds an instant later than
\* the cutoff, whatever the other of the two holds.
C19_LastSyncedAliases ==
    Filtered =>
        \A k \in Aliases :
            LET v == pin.contact.customField[k]
            IN (ParsesAsInstant(v) /\ InstantOf(v) > CutoffInstant) => ~Kept

-----------------------------------------------------------------------------
(* Contacts seen in the run *)

\* C20: seen contacts. A contact is in the seen-set of the run from the
\* step that starts its processing, whether its sync then succeeds or
\* fails; when a later page returns its id again the filter rejects it and
\* counts it skipped, and the run starts no processing, hence no remote
\* call, for it again.
C20_SeenOnLaterPage ==
    /\ [](\A r \in Runs : (IsRun(r) /\ Active(r)) =>
            task[r].syncedContacts = Range(task[r].hPushed))
    /\ [][\A r \in Runs : IsRun(r) =>
            LET k == task[r]
                n == task'[r]
                page == PageAt(SYNC_BATCH_SIZE, k.offset)
                again == {i \in DOMAIN page : page[i] \in Range(k.hPushed)}
            IN /\ PageFetched(r) =>
                     /\ \A i \in again :
                           /\ Count(n.hSkipped, page[i]) =
                                 Count(k.hSkipped, page[i]) + Count(page, page[i])
                           /\ Count(n.hKept, page[i]) = Count(k.hKept, page[i])
                           /\ Count(n.hPushed, page[i]) = Count(k.hPushed, page[i])
                     /\ n.totalSkipped >= k.totalSkipped + Cardinality(again)
               /\ (Active(r) /\ n.hPushed # k.hPushed) =>
                     LET c == n.hPushed[Len(n.hPushed)]
                     IN c \in Range(k.hPushed) =>
                           \E j \in 1..(n.idx - 1) : n.toSync[j] = c]_vars

\* contact 1 is returned on the first page and again on the second; its
\* sync failed on the first, and on the second it was skipped
C20_Witness ==
    /\ contacts = Listing(SYNC_BATCH_SIZE) \o <<1>>
    /\ Done(1)
    /\ task[1].hListed = contacts
    /\ 1 \in Range(task[1].hGaveUp)
    /\ task[1].hSkipped = <<1>>
    /\ task[1].totalSkipped = 1
    /\ Count(task[1].hPushed, 1) = 1

-----------------------------------------------------------------------------
(* The state of a run is its own *)

\* the locals of periodicSync the claim names
RunState(k) ==
    <<k.offset, k.syncedContacts, k.cutoff,
      k.totalProcessed, k.totalSuccess, k.totalSkipped, k.totalFailed>>

\* C21: run state is private. While two runs overlap, a step of one run
\* leaves the offset, the seen-set, the cutoff and the counters of the
\* other as they were, and leaves the listing alone; what it may change
\* outside its own locals is the custom fields of the contact it writes
\* back (and the Lead Store, which no run's filter reads).
C21_RunStatePrivate ==
    [][\A t \in Tasks : \A u \in Tasks \ {t} :
          (Active(t) /\ Active(u) /\ task'[t] # task[t]) =>
              /\ RunState(task'[u]) = RunState(task[u])
              /\ task'[u] = task[u]
              /\ contacts' = contacts
              /\ \A c \in Ids : customField'[c] # customField[c] =>
                    task[t].pc = "put" /\ c = Cur(task[t])]_vars

\* two runs in flight that have come apart: one has written contact 1 back,
\* the other has then fetched the page and skipped that contact
C21_Witness ==
    /\ Active(0) /\ Active(1)
    /\ task[0].kind = "run" /\ task[1].kind = "run"
    /\ RunState(task[0]) # RunState(task[1])
    /\ \E t \in Tasks : \E u \in Tasks \ {t} :
          /\ 1 \in Range(task[t].hAcked)
          /\ 1 \in Range(task[u].hSkipped)
          /\ task[u].totalSkipped = 1 /\ task[t].totalSkipped = 0

-----------------------------------------------------------------------------
(* The properties of the lead in the write-back *)

\* the property of the lead each key of the write-back copies
PropertyKeys ==
    [structurely_price_max |-> "priceMax", str_price_max |-> "priceMax",
     structurely_price_min |-> "priceMin", str_price_min |-> "priceMin",
     structurely_bedrooms |-> "bedrooms", str_bedrooms |-> "bedrooms",
     structurely_bathrooms |-> "bathrooms", str_bathrooms |-> "bathrooms",
     structurely_timeframe |-> "timeframe", str_timeframe |-> "timeframe",
     structurely_location |-> "location", str_location |-> "location",
     structurely_property_type |-> "propertyType", str_property_type |-> "propertyType",
     structurely_notes |-> "notes", str_notes |-> "notes"]

\* the decimal digits of a natural number
RECURSIVE DigitsOf(_)
DigitsOf(n) == IF n < 10 THEN <<48 + n>> ELSE DigitsOf(n \div 10) \o <<48 + (n % 10)>>

\* String(v) of a number or a string
StringForm(v) == IF v.t = "number" THEN Str(DigitsOf(v.n)) ELSE v

\* C22: write-back passthrough. Each of price min/max, bedrooms, bathrooms,
\* timeframe, location, property type and notes is written as the string
\* form of the lead's value whenever the lead has the property, the value 0
\* included, and as the empty string only when the lead has it not. (A
\* number sent as a number counts as written in its string form: the code
\* makes no cast, the value is rendered on the wire.)
C22_Passthrough ==
    WrittenBack =>
        \A key \in DOMAIN PropertyKeys :
            LET v == PropertyOf(pin.lead, PropertyKeys[key])
            IN /\ v = Undefined => pout[key] = Str(<<>>)
               /\ v # Undefined => pout[key] \in {v, StringForm(v)}

-----------------------------------------------------------------------------
(* src/index.js *)

\* C23: in index.js a list-contacts failure for one page does not abort the
\* run. No run of index.js ends with a failed list call: after the failure
\* the run is still fetching pages.
C23_IndexPageFailure ==
    \A r \in Runs :
        (IsIndexRun(r) /\ task[r].hLast.op = "list") => Active(r) \/ Done(r)

\* C24: in index.js the first run and the interval timer are set up only if
\* the integration test completed successfully: once the test has ended
\* with an error, no run of periodicSync is started and no timer registered.
C24_IndexTestGate ==
    (task[0].kind = "indexTest" /\ task[0].hLast.caught # NoError) =>
        /\ ~timerSet
        /\ \A r \in Runs : ~IsIndexRun(r)

-----------------------------------------------------------------------------
(* The balance of the counters *)

\* contacts counted processed and not yet counted succeeded or failed
InFlight(k) == k.totalProcessed - (k.totalSuccess + k.totalFailed)

\* C25: counter balance. In every state of a run processed - (succeeded +
\* failed) is 0 or 1, it is 1 exactly while a contact is in flight (its
\* push, fetch or update is in progress), and at DONE processed =
\* succeeded + failed.
C25_CounterBalance ==
    \A r \in Runs : IsRun(r) =>
        LET k == task[r] IN
        /\ InFlight(k) \in {0, 1}
        /\ InFlight(k) = 1 <=> k.pc \in {"push", "get", "put"}
        /\ Done(r) => k.totalProcessed = k.totalSuccess + k.totalFailed

\* the first contact has failed and the second is in flight
C25_Witness ==
    /\ IsRun(1)
    /\ task[1].pc = "get"
    /\ task[1].totalProcessed = 2
    /\ task[1].totalSuccess = 0
    /\ task[1].totalFailed = 1

-----------------------------------------------------------------------------
(* Retries and the counters *)

\* the step of run r is an answer to the call in progress
Answered(r) ==
    /\ Active(r) /\ task'[r] # task[r] /\ failures' = failures
    /\ ~MustFail(r)

\* a number of pushes run record k has made for contact c at the least: a
\* contact the Lead Store refuses is given up after maxRetriesPush + 1
\* pushes each time it is processed, any other is pushed once or more
PushesAtLeast(k, c) ==
    IF c \in rejected THEN (maxRetriesPush + 1) * Count(k.hGaveUp, c)
    ELSE Count(k.hPushed, c)

\* C26: recovered failures are invisible to the counters. A call that is
\* answered on attempt k has been invoked k times, k <= 4, and is not
\* invoked again; a contact is counted failed only by the failure of a 4th
\* attempt, and counted succeeded when its update is answered, whatever
\* attempts came before; hence no contact is pushed more than 4 times in
\* one run.
C26_RecoveredFailures ==
    /\ [](\A r \in Runs : (IsRun(r) /\ Active(r)) =>
            /\ task[r].hAttempts = task[r].retryCount
            /\ task[r].retryCount <= 3)
    /\ [][\A r \in Runs : IsRun(r) =>
            LET k == task[r]
                n == task'[r]
            IN /\ Answered(r) =>
                     /\ n.totalFailed = k.totalFailed
                     /\ n.hGaveUp = k.hGaveUp
                     /\ k.hAttempts <= 3
                     /\ k.pc = "put" => n.totalSuccess = k.totalSuccess + 1
                     /\ k.pc # "put" => n.totalSuccess = k.totalSuccess
               /\ n.totalFailed # k.totalFailed =>
                     /\ k.pc \in {"push", "get", "put"}
                     /\ k.hAttempts = 3
                     /\ n.totalSuccess = k.totalSuccess]_vars
    /\ [](\A r \in Runs : IsRun(r) =>
            \A c \in Ids : PushesAtLeast(task[r], c) <= maxRetriesPush + 1)

-----------------------------------------------------------------------------
(* Contacts the filter rejects *)

\* contacts run record k has only ever rejected
OnlyRejected(k) == Range(k.hSkipped) \ Range(k.hPushed)

\* C27: a rejected contact causes no remote call. The step in which the
\* filter rejects contacts starts processing for none of them; a contact
\* the run has only rejected is not in its seen-set, has no lead pushed and
\* no custom field written by the run; and whatever a run pushes or writes
\* is for the contact it is processing.
C27_RejectedIsUntouched ==
    /\ [](\A r \in Runs : IsRun(r) =>
            \A c \in OnlyRejected(task[r]) :
                /\ c \notin task[r].syncedContacts
                /\ ~LeadOf(c)
                /\ ackedAt[c] = -1
                /\ customField[c] \in {NoFields, StampedAt(task[r].hStart)})
    /\ [][\A r \in Runs : (IsRun(r) /\ task'[r] # task[r]) =>
            LET k == task[r]
                n == task'[r]
            IN /\ \A c \in Ids :
                     (customField'[c] # customField[c]
                        \/ (LeadOf(c))' # LeadOf(c)) =>
                            /\ k.pc \in {"push", "put"}
                            /\ c = Cur(k) /\ c \in Range(k.hKept)
               /\ \A c \in n.syncedContacts \ k.syncedContacts :
                     c \in Range(n.hKept) /\ c = Cur(n)]_vars

\* contact 2 was synced within the cutoff: the run has skipped it and has
\* synced the contacts before and after it
C27_Witness ==
    /\ contacts = Listing(3)
    /\ Done(1)
    /\ task[1].hSkipped = <<2>>
    /\ task[1].hAcked = <<1, 3>>
    /\ customField[2] = StampedAt(task[1].hStart)
    /\ ~LeadOf(2)

-----------------------------------------------------------------------------
(* A failed contact keeps no marker *)

\* the filter of a run started at hour h, which has seen nothing yet, keeps c
EligibleAt(c, h) ==
    FilterVerdict(ContactOf(c), {}, syncCutoffTimeString(h)) = "sync"

\* C28: failure leaves no synced marker. While a push or a fetch is in
\* progress no write-back has been prepared or issued for the contact; in
\* the step that counts a contact failed, and in every failed attempt
\* before it, its custom fields stay as they are; and once it is counted
\* failed the contact carries no last-synced value newer than the one the
\* run found, so that the filter of any later run keeps it.
C28_FailureLeavesNoMarker ==
    /\ [](\A r \in Runs : (IsRun(r) /\ task[r].pc \in {"push", "get"}) =>
            task[r].stamp = Str(<<>>))
    /\ [][\A r \in Runs : (IsRun(r) /\ Active(r) /\ task'[r] # task[r]) =>
            LET k == task[r]
                n == task'[r]
            IN /\ failures' # failures \/ MustFail(r) => customField' = customField
               /\ n.totalFailed # k.totalFailed =>
                     /\ customField' = customField
                     /\ ackedAt' = ackedAt
                     /\ n.hAcked = k.hAcked
                     /\ \A h \in k.hStart..MaxClock : EligibleAt(Cur(k), h)]_vars

\* the update of contact 1 has failed on every attempt: the contact is
\* counted failed and carries no last-synced value
C28_Witness ==
    /\ contacts = Listing(1)
    /\ Done(1)
    /\ task[1].hGaveUp = <<1>>
    /\ task[1].hLast.op = "put"
    /\ task[1].hLast.attempts = 4
    /\ customField[1] = NoFields
    /\ EligibleAt(1, MaxClock)

-----------------------------------------------------------------------------
(* Coverage of the Contact Store *)

\* run r has ended, no list call of it failed for good, and every entry of
\* the listing is a contact
ListedInPeace(r) ==
    /\ task[r].kind \in {"run", "indexRun"}
    /\ Done(r) \/ Failed(r)
    /\ task[r].hPagesFailed = 0
    /\ ~(Failed(r) /\ task[r].hLast.op \in {"fields", "list"})
    /\ NullContact \notin Range(contacts)

\* C29: coverage. A run whose list calls were all answered, over a listing
\* that stays as it is, ends normally having examined the listing from its
\* first entry to its last, each entry once and in order: every entry is
\* either handed to the for loop (processed) or rejected by the filter
\* (counted skipped), as often as the store lists it, and the final offset
\* is the number of entries of the listing.
C29_Coverage ==
    \A r \in Runs : ListedInPeace(r) =>
        LET k == task[r]
        IN /\ Done(r)
           /\ k.hListed = contacts
           /\ k.offset = Len(contacts)
           /\ \A c \in Ids : Count(k.hKept, c) + Count(k.hSkipped, c) = Count(contacts, c)
           /\ IsRun(r) => /\ k.totalProcessed = Len(k.hKept)
                           /\ k.totalSkipped = Len(k.hSkipped)
                           /\ k.totalProcessed + k.totalSkipped = Len(contacts)

\* a run over two pages has ended, with contacts processed and contacts
\* skipped
C29_Witness ==
    /\ contacts = Listing(NumIds)
    /\ ListedInPeace(1)
    /\ task[1].offset = NumIds
    /\ task[1].totalProcessed > 0
    /\ task[1].totalSkipped > 0
    /\ task[1].totalFailed > 0

-----------------------------------------------------------------------------
(* The first run after the integration test *)

\* no remote call fails in this behaviour
NothingFails ==
    /\ ~listDown
    /\ rejected = {}
    /\ failures = 0
    /\ NullContact \notin Range(contacts)

\* the step in which the first run of initialize returns
FirstRunReturns == initPc = "firstRun" /\ initPc' = "running"

\* C30: startup coverage. When no remote call fails, the first run has
\* pushed every contact of the store by the time it returns (no contact
\* carries a last-synced value when the process starts), and the Lead Store
\* then holds, for each of them, the lead mapped from the contact's own
\* fields; the integration test before it does not stand in the way.
C30_StartupCoverage ==
    [][(FirstRunReturns /\ NothingFails /\ failures' = 0) =>
          \A c \in Range(contacts) :
             /\ c \in Range(task'[1].hPushed)
             /\ LeadPayload(GhlLeadOf(ContactOf(c))) \in leads']_vars

-----------------------------------------------------------------------------
(* The bookkeeping keys *)

\* the keys periodicSync reads for the lead id a contact already has
\* (existingStructurelyId)
LeadIdKeys ==
    {"structurely_lead_id", "structurely_id", "structurely_reference", "str_lead_ref"}

\* every key of the set is written by the write-back
KeysWritten(keys) == WrittenBack => keys \subseteq DOMAIN pout

\* the lead-id keys the write-back writes all hold the id of the lead
LeadIdKeysAgree ==
    WrittenBack => \A k \in LeadIdKeys \cap DOMAIN pout : pout[k] = pin.lead.id

\* C31: bookkeeping keys round-trip. Every key periodicSync reads as sync
\* bookkeeping, the two last-synced aliases and the four lead-id aliases, is
\* a key of the custom-field map the write-back makes, and the lead-id
\* aliases that map has all hold the same lead id.
C31_BookkeepingRoundTrip ==
    /\ KeysWritten(Aliases)
    /\ KeysWritten(LeadIdKeys)
    /\ LeadIdKeysAgree

====
